---- MODULE Spec2Model ----
(***************************************************************************)
(* Turtle portfolio back-test (examples/turtle): the breakout signals      *)
(* (TurtleSignal / TurtleResult), the portfolio allocator                  *)
(* (TurtlePortfolio) and the daily ledger and result aggregation           *)
(* (DailyResult / BacktestingEngine.calculate_result).                     *)
(*                                                                         *)
(* Prices are integers.  The ATR volatility is drawn from even integers so *)
(* that the half-N entry levels (0.5 N, 1.5 N) stay integral.  Averages    *)
(* (TurtleResult.entry) are kept as exact fractions.                       *)
(***************************************************************************)
EXTENDS Integers, Sequences, FiniteSets, TLC

---------------------------------------------------------------------------
(* Program constants *)

MAX_PRODUCT_POS == 4

MAX_DIRECTION_POS == 10

AM_SIZE == 60

PORTFOLIO_VALUE == 10000000

(* Bounds of the model *)

(* the upper price level of the market *)
MaxPrice == 4

(* timestamps replayed by the single-symbol replay *)
MaxDays == 64

(* timestamps replayed by the three-symbol replay *)
MaxCapDays == 61

(* timestamps of the ledger run *)
MaxLedgerDays == 3

(* calls of calculate_result on one run *)
MaxSummaries == 2

(* bars of the breakout run *)
MaxBreakoutDays == 25

(* the datetimes the collections of the data base can hold: 1..MaxDates *)
MaxDates == 3

(* timestamps of a run in which instruments can miss bars *)
MaxGapDays == 3

(* timestamps of the replay of three symbols in one market *)
MaxExitDays == 65

(* timestamps of the replay that starts with bars without price range *)
MaxFlatDays == 61

---------------------------------------------------------------------------
(* Helpers *)

Max(a, b) == IF a >= b THEN a ELSE b

Min(a, b) == IF a <= b THEN a ELSE b

Abs(a) == IF a >= 0 THEN a ELSE -a

Last(s) == s[Len(s)]

Range(s) == {s[i] : i \in 1..Len(s)}

(* Python's round(): round half to even, n / d with d > 0 *)
RoundHalfEven(n, d) ==
    LET q == n \div d
        r == n % d
    IN  IF 2 * r < d THEN q
        ELSE IF 2 * r > d THEN q + 1
        ELSE IF q % 2 = 0 THEN q ELSE q + 1

---------------------------------------------------------------------------
(* Configuration: symbols, the two signals of a symbol, contract data *)

Symbols == {"a", "b", "c"}

SignalIds == {1, 2}

(* TurtlePortfolio.init: signal_1 = (20, 10, 20, True), signal_2 = (55, 20, 20, False) *)
entry_window(k) == IF k = 1 THEN 20 ELSE 55

exit_window(k) == IF k = 1 THEN 10 ELSE 20

atr_window(k) == 20

profit_check(k) == (k = 1)

(* contract size and price tick of the instrument configuration *)
sizes == [s \in Symbols |-> 10]

priceticks == [s \in Symbols |-> 1]

LONG == "LONG"

SHORT == "SHORT"

OPEN == "OPEN"

CLOSE == "CLOSE"

---------------------------------------------------------------------------
(* State *)

VARIABLES
    vt_symbols,       \* BacktestingEngine.vt_symbols: the instruments of the run, in order
    signals,          \* TurtlePortfolio.signals: <<symbol, k>> -> TurtleSignal fields
    units,            \* TurtlePortfolio.units
    total_long,       \* TurtlePortfolio.total_long
    total_short,      \* TurtlePortfolio.total_short
    trading_signals,  \* TurtlePortfolio.trading_signals: symbol -> k of the trading signal
    multipliers,      \* TurtlePortfolio.multipliers (a dict: empty at first)
    poses,            \* TurtlePortfolio.poses
    trades,           \* BacktestingEngine.trades: the fills recorded, in order
    error,            \* "none", or the exception that ended the run
    cursor,           \* run_backtesting: position in the current timestamp's bars
    days,             \* run_backtesting: timestamps replayed so far
    calls,            \* history: the new_signal calls of the latest on_bar
    bar_units,        \* history: the signals' unit before the latest on_bar
    results,          \* BacktestingEngine.results: the DailyResult of every timestamp
    returned,         \* history: what the calls of calculate_result returned, in order
    db,               \* the data base: symbol -> the datetimes of its collection
    data,             \* BacktestingEngine.data: the dict, as its entries in insertion order
    breakout          \* history: the highest high of the first 20 bars, the latest bar

strategy_vars == <<vt_symbols, signals, units, total_long, total_short, trading_signals,
                   multipliers, poses, trades, error, cursor, days, calls, bar_units>>

ledger_vars == <<results, returned>>

feed_vars == <<db, data, breakout>>

(* The strategy state as one value, threaded through the method operators *)
State ==
    [signals |-> signals, units |-> units, total_long |-> total_long,
     total_short |-> total_short, trading_signals |-> trading_signals,
     multipliers |-> multipliers, poses |-> poses, trades |-> trades,
     error |-> error, calls |-> calls, outcome |-> "",
     proposal |-> [bar |-> <<>>, trigger |-> 0]]

EmptyDict == [x \in {} |-> 0]

(* TurtleResult.__init__ ; entry is the fraction num / den; opens is the history of open() calls *)
NewTurtleResult ==
    [unit |-> 0, entry |-> [num |-> 0, den |-> 1], exit |-> 0, pnl |-> 0, opens |-> <<>>]

(* TurtleSignal.__init__ *)
NewTurtleSignal ==
    [am |-> [count |-> 0, inited |-> FALSE],
     atr_volatility |-> 0,
     entry_up |-> 0, entry_down |-> 0, exit_up |-> 0, exit_down |-> 0,
     long_entry_1 |-> 0, long_entry_2 |-> 0, long_entry_3 |-> 0, long_entry_4 |-> 0,
     long_stop |-> 0,
     short_entry_1 |-> 0, short_entry_2 |-> 0, short_entry_3 |-> 0, short_entry_4 |-> 0,
     short_stop |-> 0,
     unit |-> 0, last_result |-> <<>>, results |-> <<>>]

Raise(st, e) == [st EXCEPT !.error = e]

---------------------------------------------------------------------------
(* TurtleResult *)

(* TurtleResult.open that keeps the latest price in place of the average *)
TurtleResult_open_LastPrice(r, price, change) ==
    [r EXCEPT !.unit = r.unit + change,
              !.entry = [num |-> price, den |-> 1],
              !.opens = Append(@, <<price, change>>)]

(* TurtleResult.open: cost = unit * entry + change * price; entry = cost / unit *)
TurtleResult_open(r, price, change) ==
    LET cost == (r.unit * r.entry.num) \div r.entry.den + change * price
        unit == r.unit + change
    IN  [r EXCEPT !.unit = unit,
                  !.entry = [num |-> cost, den |-> unit],
                  !.opens = Append(@, <<price, change>>)]

(* TurtleResult.close: pnl = unit * (exit - entry) *)
TurtleResult_close(r, price) ==
    [r EXCEPT !.exit = price,
              !.pnl = (r.unit * (price * r.entry.den - r.entry.num)) \div r.entry.den]

---------------------------------------------------------------------------
(* BacktestingEngine.sendOrder: round the price to the tick and record the fill.
   TurtlePortfolio.send_order reaches it as self.engine.send_order. *)
sendOrder(st, vt_symbol, direction, offset, price, volume) ==
    LET priceTick == priceticks[vt_symbol]
        rounded == RoundHalfEven(price, priceTick) * priceTick
        trade == [vt_symbol |-> vt_symbol, direction |-> direction, offset |-> offset,
                  price |-> rounded, volume |-> volume]
    IN  [st EXCEPT !.trades = Append(@, trade)]

---------------------------------------------------------------------------
(* TurtlePortfolio *)

(* the loop of send_order that recomputes total_long / total_short from units *)
SumUnits(us, syms, long) ==
    LET RECURSIVE Sum(_)
        Sum(S) == IF S = {} THEN 0
                  ELSE LET x == CHOOSE y \in S : TRUE
                       IN  (IF long THEN (IF us[x] > 0 THEN us[x] ELSE 0)
                                    ELSE (IF us[x] < 0 THEN us[x] ELSE 0))
                           + Sum(S \ {x})
    IN  Sum(syms)

(* send_order without the recomputation of lines 371-379 *)
Totals_Stale(st) == st

(* send_order, lines 371-379 *)
Totals(st) ==
    [st EXCEPT !.total_long = SumUnits(st.units, DOMAIN st.units, TRUE),
               !.total_short = SumUnits(st.units, DOMAIN st.units, FALSE)]

(* send_order that moves poses by the units, not by the contracts *)
Position_Units(st, vt_symbol, direction, volume, multiplier) ==
    IF direction = LONG
    THEN [st EXCEPT !.units[vt_symbol] = @ + volume, !.poses[vt_symbol] = @ + volume]
    ELSE [st EXCEPT !.units[vt_symbol] = @ - volume, !.poses[vt_symbol] = @ - volume]

(* send_order, lines 364-369 *)
Position(st, vt_symbol, direction, volume, multiplier) ==
    IF direction = LONG
    THEN [st EXCEPT !.units[vt_symbol] = @ + volume,
                    !.poses[vt_symbol] = @ + volume * multiplier]
    ELSE [st EXCEPT !.units[vt_symbol] = @ - volume,
                    !.poses[vt_symbol] = @ - volume * multiplier]

(* TurtlePortfolio.send_order *)
send_order(st, vt_symbol, direction, offset, price, volume, multiplier) ==
    sendOrder(Totals(Position(st, vt_symbol, direction, volume, multiplier)),
              vt_symbol, direction, offset, price, volume * multiplier)

(* TurtleSignal.get_last_pnl *)
get_last_pnl(signal) ==
    IF signal.results = <<>> THEN 0 ELSE Last(signal.results).pnl

(* what a new_signal call can change in the portfolio and the engine *)
AllocatorView(st) ==
    [units |-> st.units, multipliers |-> st.multipliers, poses |-> st.poses,
     trading_signals |-> st.trading_signals, total_long |-> st.total_long,
     total_short |-> st.total_short, trades |-> Len(st.trades)]

(* history of one new_signal call: st0 before it, st1 after it; bar and trigger are
   the bar being processed and the level that fired *)
Logged(st0, st1, id, direction, offset, price, volume) ==
    [st1 EXCEPT !.calls = Append(@,
        [signal |-> id, direction |-> direction, offset |-> offset, price |-> price,
         volume |-> volume, outcome |-> st1.outcome,
         atr_volatility |-> st0.signals[id].atr_volatility,
         bar |-> st0.proposal.bar, trigger |-> st0.proposal.trigger,
         before |-> AllocatorView(st0), after |-> AllocatorView(st1)])]

(* new_signal without the test of lines 346-348 *)
Filtered_NoExclusivity(st, id, direction, offset) ==
    LET vt_symbol == id[1]
        unit == st.units[vt_symbol]
    IN  \/ /\ offset = OPEN
           /\ \/ profit_check(id[2]) /\ get_last_pnl(st.signals[id]) > 0
              \/ direction = LONG /\ st.total_long >= MAX_DIRECTION_POS
              \/ direction = LONG /\ st.units[vt_symbol] >= MAX_PRODUCT_POS
              \/ direction # LONG /\ st.total_short <= -MAX_DIRECTION_POS
              \/ direction # LONG /\ st.units[vt_symbol] <= -MAX_PRODUCT_POS
        \/ /\ offset # OPEN
           /\ \/ direction = LONG /\ unit >= 0
              \/ direction # LONG /\ unit <= 0

(* new_signal without the portfolio-wide tests of lines 317 and 325 *)
Filtered_NoDirectionCap(st, id, direction, offset) ==
    LET vt_symbol == id[1]
        unit == st.units[vt_symbol]
    IN  \/ /\ offset = OPEN
           /\ \/ profit_check(id[2]) /\ get_last_pnl(st.signals[id]) > 0
              \/ direction = LONG /\ st.units[vt_symbol] >= MAX_PRODUCT_POS
              \/ direction # LONG /\ st.units[vt_symbol] <= -MAX_PRODUCT_POS
        \/ /\ offset # OPEN
           /\ \/ direction = LONG /\ unit >= 0
              \/ direction # LONG /\ unit <= 0
        \/ /\ vt_symbol \in DOMAIN st.trading_signals
           /\ st.trading_signals[vt_symbol] # id[2]

(* new_signal, lines 306-348: TRUE when a filter returns before the order is sent *)
Filtered(st, id, direction, offset) ==
    LET vt_symbol == id[1]
        unit == st.units[vt_symbol]
    IN  \/ /\ offset = OPEN
           /\ \/ profit_check(id[2]) /\ get_last_pnl(st.signals[id]) > 0
              \/ direction = LONG /\ st.total_long >= MAX_DIRECTION_POS
              \/ direction = LONG /\ st.units[vt_symbol] >= MAX_PRODUCT_POS
              \/ direction # LONG /\ st.total_short <= -MAX_DIRECTION_POS
              \/ direction # LONG /\ st.units[vt_symbol] <= -MAX_PRODUCT_POS
        \/ /\ offset # OPEN
           /\ \/ direction = LONG /\ unit >= 0
              \/ direction # LONG /\ unit <= 0
        \/ /\ vt_symbol \in DOMAIN st.trading_signals
           /\ st.trading_signals[vt_symbol] # id[2]

(* new_signal, lines 350-355: cache the trading signal on open, pop it on close *)
CacheSignal(st, id, offset) ==
    LET vt_symbol == id[1]
    IN  IF offset = OPEN
        THEN [st EXCEPT !.trading_signals = (vt_symbol :> id[2]) @@ @]
        ELSE IF vt_symbol \in DOMAIN st.trading_signals
        THEN [st EXCEPT !.trading_signals =
                 [x \in (DOMAIN @) \ {vt_symbol} |-> @[x]]]
        ELSE Raise(st, "KeyError")

(* new_signal, lines 357-358, st being the state after lines 350-355 *)
Send(st, id, direction, offset, price, volume) ==
    IF st.error # "none" THEN [st EXCEPT !.outcome = "raised"]
    ELSE send_order([st EXCEPT !.outcome = "accepted"], id[1], direction, offset, price,
                    volume, st.multipliers[id[1]])

(* new_signal that caches the proposing signal before the filters return *)
Decide_CacheFirst(st, id, direction, offset, price, volume, unit) ==
    IF Filtered(st, id, direction, offset)
    THEN [st EXCEPT !.outcome = "rejected",
                    !.trading_signals = (id[1] :> id[2]) @@ @]
    ELSE Send(CacheSignal(st, id, offset), id, direction, offset, price,
              IF offset = OPEN THEN volume ELSE Min(volume, Abs(unit)))

(* new_signal that closes the volume the signal asks for, without lines 338 and 343 *)
Decide_CloseAsked(st, id, direction, offset, price, volume, unit) ==
    IF Filtered(st, id, direction, offset)
    THEN [st EXCEPT !.outcome = "rejected"]
    ELSE Send(CacheSignal(st, id, offset), id, direction, offset, price, volume)

(* new_signal, lines 306-358, st being the state after lines 293-304; unit is the
   local read at line 293 *)
Decide(st, id, direction, offset, price, volume, unit) ==
    IF Filtered(st, id, direction, offset)
    THEN [st EXCEPT !.outcome = "rejected"]
    ELSE Send(CacheSignal(st, id, offset), id, direction, offset, price,
              IF offset = OPEN THEN volume ELSE Min(volume, Abs(unit)))

(* new_signal that recomputes the multiplier on every call *)
Multiplier_Always(st, id) ==
    LET vt_symbol == id[1]
        divisor == st.signals[id].atr_volatility * sizes[vt_symbol]
    IN  IF divisor = 0 THEN Raise(st, "ZeroDivisionError")
        ELSE [st EXCEPT !.multipliers =
                 (vt_symbol :> RoundHalfEven(PORTFOLIO_VALUE \div 100, divisor)) @@ @]

(* new_signal, lines 296-304: the multiplier; a zero volatility ends the run *)
Multiplier(st, id) ==
    LET vt_symbol == id[1]
        size == sizes[vt_symbol]
        risk_value == PORTFOLIO_VALUE \div 100
        divisor == st.signals[id].atr_volatility * size
    IN  IF st.units[vt_symbol] # 0 THEN st
        ELSE IF divisor = 0 THEN Raise(st, "ZeroDivisionError")
        ELSE [st EXCEPT !.multipliers =
                 (vt_symbol :> RoundHalfEven(risk_value, divisor)) @@ @]

(* new_signal, from line 306 on *)
AfterMultiplier(st, id, direction, offset, price, volume, unit) ==
    IF st.error # "none" THEN [st EXCEPT !.outcome = "raised"]
    ELSE Decide(st, id, direction, offset, price, volume, unit)

(* TurtlePortfolio.new_signal *)
new_signal(st, id, direction, offset, price, volume) ==
    Logged(st,
           AfterMultiplier(Multiplier(st, id), id, direction, offset, price, volume,
                           st.units[id[1]]),
           id, direction, offset, price, volume)

---------------------------------------------------------------------------
(* TurtleSignal.  bar is the bar of the running on_bar (self.last_bar). *)

(* calculate_trade_price that fills at the level that fired *)
calculate_trade_price_AtTrigger(bar, direction, price) == price

(* TurtleSignal.calculate_trade_price *)
calculate_trade_price(bar, direction, price) ==
    IF direction = LONG THEN Max(bar.open, price) ELSE Min(bar.open, price)

(* TurtleSignal.open *)
TurtleSignal_open(st, id, price, change) ==
    LET signal == st.signals[id]
        result == IF signal.last_result = <<>> THEN NewTurtleResult
                  ELSE signal.last_result[1]
    IN  [st EXCEPT !.signals[id].unit = @ + change,
                   !.signals[id].last_result = <<TurtleResult_open(result, price, change)>>]

(* TurtleSignal.close *)
TurtleSignal_close(st, id, price) ==
    LET signal == st.signals[id]
    IN  IF signal.last_result = <<>>
        THEN Raise([st EXCEPT !.signals[id].unit = 0], "AttributeError")
        ELSE [st EXCEPT !.signals[id].unit = 0,
                        !.signals[id].results =
                            Append(@, TurtleResult_close(signal.last_result[1], price)),
                        !.signals[id].last_result = <<>>]

(* buy, line 184 *)
SetLongStop(st, id, price) ==
    IF st.error # "none" THEN st
    ELSE [st EXCEPT !.signals[id].long_stop = price - st.signals[id].atr_volatility * 2]

(* short, line 202 *)
SetShortStop(st, id, price) ==
    IF st.error # "none" THEN st
    ELSE [st EXCEPT !.signals[id].short_stop = price + st.signals[id].atr_volatility * 2]

(* buy, lines 180-184, price being the trade price *)
BuyAt(st, id, price, volume) ==
    SetLongStop(new_signal(TurtleSignal_open(st, id, price, volume),
                           id, LONG, OPEN, price, volume),
                id, price)

(* short, lines 198-202 *)
ShortAt(st, id, price, volume) ==
    SetShortStop(new_signal(TurtleSignal_open(st, id, price, -volume),
                            id, SHORT, OPEN, price, volume),
                 id, price)

(* sell / cover, from self.close(price) on: the proposal when close did not raise *)
Propose(st, id, direction, offset, price, volume) ==
    IF st.error # "none" THEN st
    ELSE new_signal(st, id, direction, offset, price, volume)

(* history: the bar being processed and the level that fired *)
Fired(st, bar, trigger) == [st EXCEPT !.proposal = [bar |-> bar, trigger |-> trigger]]

(* TurtleSignal.buy *)
buy(st, id, bar, trigger, volume) ==
    IF st.error # "none" THEN st
    ELSE BuyAt(Fired(st, bar, trigger), id, calculate_trade_price(bar, LONG, trigger),
               volume)

(* TurtleSignal.sell *)
sell(st, id, bar, trigger) ==
    IF st.error # "none" THEN st
    ELSE Propose(TurtleSignal_close(Fired(st, bar, trigger), id,
                                    calculate_trade_price(bar, SHORT, trigger)),
                 id, SHORT, CLOSE, calculate_trade_price(bar, SHORT, trigger),
                 Abs(st.signals[id].unit))

(* TurtleSignal.short *)
short(st, id, bar, trigger, volume) ==
    IF st.error # "none" THEN st
    ELSE ShortAt(Fired(st, bar, trigger), id, calculate_trade_price(bar, SHORT, trigger),
                 volume)

(* TurtleSignal.cover *)
cover(st, id, bar, trigger) ==
    IF st.error # "none" THEN st
    ELSE Propose(TurtleSignal_close(Fired(st, bar, trigger), id,
                                    calculate_trade_price(bar, LONG, trigger)),
                 id, LONG, CLOSE, calculate_trade_price(bar, LONG, trigger),
                 Abs(st.signals[id].unit))

(* the entry levels of a signal, 1..4 *)
long_entry(signal, n) ==
    IF n = 1 THEN signal.long_entry_1 ELSE IF n = 2 THEN signal.long_entry_2
    ELSE IF n = 3 THEN signal.long_entry_3 ELSE signal.long_entry_4

short_entry(signal, n) ==
    IF n = 1 THEN signal.short_entry_1 ELSE IF n = 2 THEN signal.short_entry_2
    ELSE IF n = 3 THEN signal.short_entry_3 ELSE signal.short_entry_4

(* the ifs of lines 118-132 without the test of the unit *)
LongEntry_NoUnitTest(st, id, bar, n) ==
    IF bar.high >= long_entry(st.signals[id], n)
    THEN buy(st, id, bar, long_entry(st.signals[id], n), 1)
    ELSE st

(* generate_signal, one of the four ifs of lines 118-132 *)
LongEntry(st, id, bar, n) ==
    IF bar.high >= long_entry(st.signals[id], n) /\ st.signals[id].unit < n
    THEN buy(st, id, bar, long_entry(st.signals[id], n), 1)
    ELSE st

(* generate_signal, one of the four ifs of lines 139-149 *)
ShortEntry(st, id, bar, n) ==
    IF bar.low <= short_entry(st.signals[id], n) /\ st.signals[id].unit > -n
    THEN short(st, id, bar, short_entry(st.signals[id], n), 1)
    ELSE st

(* generate_signal, lines 118-132 *)
LongEntries(st, id, bar) ==
    LongEntry(LongEntry(LongEntry(LongEntry(st, id, bar, 1), id, bar, 2), id, bar, 3),
              id, bar, 4)

(* generate_signal, lines 139-149 *)
ShortEntries(st, id, bar) ==
    ShortEntry(ShortEntry(ShortEntry(ShortEntry(st, id, bar, 1), id, bar, 2), id, bar, 3),
               id, bar, 4)

(* generate_signal, lines 134-149: st after the long entries, unit0 the unit before
   them; trade is set by every buy, and every buy adds to the unit *)
AfterLongEntries(st, id, bar, unit0) ==
    IF st.signals[id].unit # unit0 \/ st.error # "none" THEN st
    ELSE IF st.signals[id].unit <= 0 THEN ShortEntries(st, id, bar)
    ELSE st

(* generate_signal, lines 114-149 *)
Entries(st, id, bar) ==
    IF st.signals[id].unit >= 0
    THEN AfterLongEntries(LongEntries(st, id, bar), id, bar, st.signals[id].unit)
    ELSE ShortEntries(st, id, bar)

(* generate_signal without the returns of lines 107 and 112 *)
generate_signal_NoReturn(st, id, bar) ==
    LET s == st.signals[id]
        long_exit == Max(s.long_stop, s.exit_down)
        short_exit == Min(s.short_stop, s.exit_up)
    IN  IF s.long_entry_1 = 0 THEN st
        ELSE IF s.unit > 0 /\ bar.low <= long_exit
        THEN Entries(sell(st, id, bar, long_exit), id, bar)
        ELSE IF s.unit < 0 /\ bar.high >= short_exit
        THEN Entries(cover(st, id, bar, short_exit), id, bar)
        ELSE Entries(st, id, bar)

(* TurtleSignal.generate_signal *)
generate_signal(st, id, bar) ==
    LET s == st.signals[id]
        long_exit == Max(s.long_stop, s.exit_down)
        short_exit == Min(s.short_stop, s.exit_up)
    IN  IF s.long_entry_1 = 0 THEN st
        ELSE IF s.unit > 0 /\ bar.low <= long_exit THEN sell(st, id, bar, long_exit)
        ELSE IF s.unit < 0 /\ bar.high >= short_exit THEN cover(st, id, bar, short_exit)
        ELSE Entries(st, id, bar)

(* ArrayManager.update_bar: the container is inited once it holds size bars *)
update_bar(am) ==
    IF am.inited THEN am
    ELSE [count |-> am.count + 1, inited |-> am.count + 1 >= AM_SIZE]

(* ArrayManager.donchian(n) and ArrayManager.atr(n) of the bars held after update_bar:
   ind is what the container answers for the bars it holds *)
donchian(ind, n) == <<ind.up[n], ind.down[n]>>

atr(ind, n) == ind.atr

(* calculate_indicator without the test of line 157 *)
calculate_indicator_Always(st, id, ind) ==
    IF st.error # "none" THEN st ELSE
    LET k == id[2]
        entry == donchian(ind, entry_window(k))
        exit == donchian(ind, exit_window(k))
        n == atr(ind, atr_window(k))
    IN  [st EXCEPT !.signals[id] =
            [@ EXCEPT !.entry_up = entry[1], !.entry_down = entry[2],
                      !.exit_up = exit[1], !.exit_down = exit[2],
                      !.atr_volatility = n,
                      !.long_entry_1 = entry[1],
                      !.long_entry_2 = entry[1] + n \div 2,
                      !.long_entry_3 = entry[1] + n,
                      !.long_entry_4 = entry[1] + (n * 3) \div 2,
                      !.long_stop = 0,
                      !.short_entry_1 = entry[2],
                      !.short_entry_2 = entry[2] - n \div 2,
                      !.short_entry_3 = entry[2] - n,
                      !.short_entry_4 = entry[2] - (n * 3) \div 2,
                      !.short_stop = 0]]

(* TurtleSignal.calculate_indicator *)
calculate_indicator(st, id, ind) ==
    IF st.error # "none" THEN st ELSE
    LET k == id[2]
        entry == donchian(ind, entry_window(k))
        exit == donchian(ind, exit_window(k))
        s1 == [st.signals[id] EXCEPT !.entry_up = entry[1], !.entry_down = entry[2],
                                     !.exit_up = exit[1], !.exit_down = exit[2]]
        n == atr(ind, atr_window(k))
        s2 == IF s1.unit # 0 THEN s1
              ELSE [s1 EXCEPT !.atr_volatility = n,
                              !.long_entry_1 = s1.entry_up,
                              !.long_entry_2 = s1.entry_up + n \div 2,
                              !.long_entry_3 = s1.entry_up + n,
                              !.long_entry_4 = s1.entry_up + (n * 3) \div 2,
                              !.long_stop = 0,
                              !.short_entry_1 = s1.entry_down,
                              !.short_entry_2 = s1.entry_down - n \div 2,
                              !.short_entry_3 = s1.entry_down - n,
                              !.short_entry_4 = s1.entry_down - (n * 3) \div 2,
                              !.short_stop = 0]
    IN  [st EXCEPT !.signals[id] = s2]

(* on_bar, lines 86-90, st holding the updated container *)
AfterUpdate(st, id, bar, ind) ==
    IF ~st.signals[id].am.inited THEN st
    ELSE calculate_indicator(generate_signal(st, id, bar), id, ind)

(* TurtleSignal.on_bar *)
TurtleSignal_on_bar(st, id, bar, ind) ==
    IF st.error # "none" THEN st
    ELSE AfterUpdate([st EXCEPT !.signals[id].am = update_bar(@)], id, bar, ind)

(* TurtlePortfolio.on_bar: the symbol's signals in the order init appended them *)
on_bar(st, vt_symbol, bar, ind) ==
    TurtleSignal_on_bar(TurtleSignal_on_bar(st, <<vt_symbol, 1>>, bar, ind),
                        <<vt_symbol, 2>>, bar, ind)

---------------------------------------------------------------------------
(* Market data *)

(* the market trades at two price levels *)
Prices == {1, MaxPrice}

Between(lo, hi) == {x \in Prices : lo <= x /\ x <= hi}

Windows == {10, 20, 55}

AtrValues == {2, 4}

Bars == {b \in [open : Prices, high : Prices, low : Prices] :
            b.low <= b.open /\ b.open <= b.high}

(* What the containers of a symbol can answer after taking bar: each channel holds
   the bar, a longer window contains a shorter one, and a channel that slides by one
   bar cannot pass the old channel and the new bar. *)
Indicators(vt_symbol, bar) ==
    LET s1 == signals[<<vt_symbol, 1>>]
        s2 == signals[<<vt_symbol, 2>>]
        old_up == (10 :> s1.exit_up) @@ (20 :> s1.entry_up) @@ (55 :> s2.entry_up)
        old_down == (10 :> s1.exit_down) @@ (20 :> s1.entry_down) @@ (55 :> s2.entry_down)
        hi(n) == IF old_up[n] = 0 THEN MaxPrice ELSE Max(old_up[n], bar.high)
        lo(n) == IF old_down[n] = 0 THEN 1 ELSE Min(old_down[n], bar.low)
        ups == UNION {UNION {{(10 :> u10) @@ (20 :> u20) @@ (55 :> u55) :
                                 u55 \in Between(Max(u20, bar.high), hi(55))} :
                             u20 \in Between(Max(u10, bar.high), hi(20))} :
                      u10 \in Between(bar.high, hi(10))}
        downs == UNION {UNION {{(10 :> d10) @@ (20 :> d20) @@ (55 :> d55) :
                                   d55 \in Between(lo(55), Min(d20, bar.low))} :
                               d20 \in Between(lo(20), Min(d10, bar.low))} :
                        d10 \in Between(lo(10), bar.low)}
    IN  {[up |-> u, down |-> d, atr |-> n] : u \in ups, d \in downs, n \in AtrValues}

---------------------------------------------------------------------------
(* The replay *)

(* TurtlePortfolio.__init__ / init and BacktestingEngine.__init__ for the symbols syms *)
InitStrategy(syms) ==
    /\ vt_symbols = syms
    /\ signals = [id \in Range(syms) \X SignalIds |-> NewTurtleSignal]
    /\ units = [s \in Range(syms) |-> 0]
    /\ poses = [s \in Range(syms) |-> 0]
    /\ total_long = 0
    /\ total_short = 0
    /\ trading_signals = EmptyDict
    /\ multipliers = EmptyDict
    /\ trades = <<>>
    /\ error = "none"
    /\ cursor = 1
    /\ days = 0
    /\ calls = <<>>
    /\ bar_units = [k \in SignalIds |-> 0]
    /\ results = <<>>
    /\ returned = <<>>

(* nothing loaded by load_data, no bar fed *)
NoFeed ==
    /\ db = EmptyDict
    /\ data = <<>>
    /\ breakout = [high |-> 0, bar |-> <<>>]

Init == InitStrategy(<<"a">>) /\ NoFeed

(* run_backtesting, line 107: the next bar of the timestamp goes to portfolio.on_bar *)
OnBar(bar, ind) ==
    /\ error = "none"
    /\ \E vt_symbol \in {vt_symbols[cursor]} :
       \E st \in {on_bar([State EXCEPT !.calls = <<>>], vt_symbol, bar, ind)} :
          /\ signals' = st.signals
          /\ units' = st.units
          /\ total_long' = st.total_long
          /\ total_short' = st.total_short
          /\ trading_signals' = st.trading_signals
          /\ multipliers' = st.multipliers
          /\ poses' = st.poses
          /\ trades' = st.trades
          /\ error' = st.error
          /\ calls' = st.calls
          /\ bar_units' = [k \in SignalIds |-> signals[<<vt_symbol, k>>].unit]
    /\ cursor' = IF cursor = Len(vt_symbols) THEN 1 ELSE cursor + 1
    /\ days' = IF cursor = Len(vt_symbols) THEN days + 1 ELSE days
    /\ UNCHANGED <<vt_symbols, results, returned>>

Next ==
    /\ days < MaxDays
    /\ \E bar \in Bars : \E ind \in Indicators(vt_symbols[cursor], bar) : OnBar(bar, ind)
    /\ UNCHANGED feed_vars

vars == <<strategy_vars, ledger_vars, feed_vars>>

Spec == Init /\ [][Next]_vars

---------------------------------------------------------------------------
(* The replay of three symbols, each timestamp holding one bar of every symbol.  The
   market is narrowed to channels of one width and one volatility. *)

CapIndicators(vt_symbol, bar) ==
    {ind \in Indicators(vt_symbol, bar) :
        /\ ind.atr = 2
        /\ ind.up[10] = ind.up[55]
        /\ ind.down[10] = ind.down[55]}

InitCaps == InitStrategy(<<"a", "b", "c">>) /\ NoFeed

NextCaps ==
    /\ days < MaxCapDays
    /\ \E bar \in Bars : \E ind \in CapIndicators(vt_symbols[cursor], bar) : OnBar(bar, ind)
    /\ UNCHANGED feed_vars

SpecCaps == InitCaps /\ [][NextCaps]_vars

---------------------------------------------------------------------------
(* The replay of three symbols that trade in one market: at every timestamp the bars
   of the three symbols are equal and their containers answer alike.  breakout.bar
   keeps the bar of the timestamp. *)

ExitIndicators(vt_symbol, bar) ==
    {ind \in CapIndicators(vt_symbol, bar) :
        (cursor > 1 /\ signals[<<"a", 1>>].am.inited) =>
            /\ ind.up[10] = signals[<<"a", 1>>].exit_up
            /\ ind.up[20] = signals[<<"a", 1>>].entry_up
            /\ ind.up[55] = signals[<<"a", 2>>].entry_up
            /\ ind.down[10] = signals[<<"a", 1>>].exit_down
            /\ ind.down[20] = signals[<<"a", 1>>].entry_down
            /\ ind.down[55] = signals[<<"a", 2>>].entry_down}

InitExits == InitStrategy(<<"a", "b", "c">>) /\ NoFeed

NextExits ==
    /\ days < MaxExitDays
    /\ \E bar \in Bars :
          /\ cursor > 1 => bar = breakout.bar
          /\ \E ind \in ExitIndicators(vt_symbols[cursor], bar) : OnBar(bar, ind)
          /\ breakout' = [breakout EXCEPT !.bar = bar]
    /\ UNCHANGED <<db, data>>

SpecExits == InitExits /\ [][NextExits]_vars

---------------------------------------------------------------------------
(* The replay of one symbol whose first AM_SIZE bars have no price range: they open,
   peak, bottom and close at one price.  breakout.bar keeps the latest bar. *)

FlatBars == {b \in Bars : b.open = b.high /\ b.high = b.low}

(* what the containers answer while every bar they hold equals bar: both channels are
   at its price and the true range of every bar is 0 *)
FlatIndicators(bar) ==
    {[up |-> [n \in Windows |-> bar.high], down |-> [n \in Windows |-> bar.low], atr |-> 0]}

InitFlat == InitStrategy(<<"a">>) /\ NoFeed

(* one of the first AM_SIZE bars *)
WarmUp ==
    /\ days < AM_SIZE
    /\ \E bar \in FlatBars :
          /\ days > 0 => bar = breakout.bar
          /\ \E ind \in FlatIndicators(bar) : OnBar(bar, ind)
          /\ breakout' = [breakout EXCEPT !.bar = bar]
    /\ UNCHANGED <<db, data>>

(* a later bar *)
AfterWarmUp ==
    /\ days >= AM_SIZE
    /\ days < MaxFlatDays
    /\ \E bar \in Bars :
          /\ \E ind \in Indicators(vt_symbols[cursor], bar) : OnBar(bar, ind)
          /\ breakout' = [breakout EXCEPT !.bar = bar]
    /\ UNCHANGED <<db, data>>

NextFlat ==
    \/ WarmUp
    \/ AfterWarmUp

SpecFlat == InitFlat /\ [][NextFlat]_vars

---------------------------------------------------------------------------
(* The daily ledger: DailyResult and BacktestingEngine.calculate_result.
   DailyResult reads self.sizes, self.slippages, self.variable_commissions and
   self.fixed_commissions: the contract data the engine holds under these names.
   Amounts are integers; a quotient is kept as the fraction num / den. *)

slippages == [s \in Symbols |-> 1]

variable_commissions == [s \in Symbols |-> 1]

fixed_commissions == [s \in Symbols |-> 1]

(* DailyResult.__init__ *)
NewDailyResult(date) ==
    [date |-> date, closes |-> EmptyDict, previousCloseDict |-> EmptyDict,
     trades |-> EmptyDict, posDict |-> EmptyDict,
     tradingPnl |-> 0, holdingPnl |-> 0, totalPnl |-> 0, commission |-> 0,
     slippage |-> 0, netPnl |-> 0, tradeCount |-> 0]

(* DailyResult.updateTrade *)
updateTrade(r, trade) ==
    [r EXCEPT !.trades = (trade.vt_symbol :>
                             Append(IF trade.vt_symbol \in DOMAIN @ THEN @[trade.vt_symbol]
                                    ELSE <<>>, trade)) @@ @,
              !.tradeCount = @ + 1]

(* DailyResult.update_pos *)
update_pos(r, d) == [r EXCEPT !.posDict = d @@ @]

(* DailyResult.update_bar *)
DailyResult_update_bar(r, vt_symbol, close) ==
    [r EXCEPT !.closes = (vt_symbol :> close) @@ @]

(* DailyResult.update_previous_close *)
update_previous_close(r, d) == [r EXCEPT !.previousCloseDict = d @@ @]

(* calculate_trading_pnl that takes every trade as a purchase *)
TradePnl_NoSide(r, vt_symbol, trade) ==
    [r EXCEPT !.commission = @ + trade.volume * fixed_commissions[vt_symbol]
                               + trade.volume * trade.price * variable_commissions[vt_symbol],
              !.slippage = @ + trade.volume * slippages[vt_symbol],
              !.tradingPnl = @ + (r.closes[vt_symbol] - trade.price) * trade.volume
                                 * sizes[vt_symbol]]

(* calculate_trading_pnl, lines 368-380: one trade *)
TradePnl(r, vt_symbol, trade) ==
    LET side == IF trade.direction = LONG THEN 1 ELSE -1
    IN  [r EXCEPT !.commission = @ + trade.volume * fixed_commissions[vt_symbol]
                                   + trade.volume * trade.price * variable_commissions[vt_symbol],
                  !.slippage = @ + trade.volume * slippages[vt_symbol],
                  !.tradingPnl = @ + (r.closes[vt_symbol] - trade.price) * trade.volume
                                     * side * sizes[vt_symbol]]

(* calculate_trading_pnl, line 367: the trades l of one symbol *)
RECURSIVE TradesPnl(_, _, _)
TradesPnl(r, vt_symbol, l) ==
    IF l = <<>> THEN r
    ELSE TradesPnl(TradePnl(r, vt_symbol, Head(l)), vt_symbol, Tail(l))

(* calculate_trading_pnl, line 359: the symbols S still to visit *)
RECURSIVE SymbolsTradingPnl(_, _)
SymbolsTradingPnl(r, S) ==
    IF S = {} THEN r
    ELSE LET vt_symbol == CHOOSE x \in S : TRUE
         IN  SymbolsTradingPnl(TradesPnl(r, vt_symbol, r.trades[vt_symbol]), S \ {vt_symbol})

(* DailyResult.calculate_trading_pnl *)
calculate_trading_pnl(r) == SymbolsTradingPnl(r, DOMAIN r.trades)

(* calculate_holding_pnl that values the position at the close, not at the change *)
HoldingPnl_NoPrevious(r, vt_symbol) ==
    [r EXCEPT !.holdingPnl = @ + r.closes[vt_symbol] * r.posDict[vt_symbol]
                                 * sizes[vt_symbol]]

(* calculate_holding_pnl, lines 385-390: one symbol *)
HoldingPnl(r, vt_symbol) ==
    LET previousClose == IF vt_symbol \in DOMAIN r.previousCloseDict
                         THEN r.previousCloseDict[vt_symbol] ELSE 0
    IN  [r EXCEPT !.holdingPnl = @ + (r.closes[vt_symbol] - previousClose)
                                     * r.posDict[vt_symbol] * sizes[vt_symbol]]

(* calculate_holding_pnl, line 384: the symbols S still to visit *)
RECURSIVE SymbolsHoldingPnl(_, _)
SymbolsHoldingPnl(r, S) ==
    IF S = {} THEN r
    ELSE LET vt_symbol == CHOOSE x \in S : TRUE
         IN  SymbolsHoldingPnl(HoldingPnl(r, vt_symbol), S \ {vt_symbol})

(* DailyResult.calculate_holding_pnl *)
calculate_holding_pnl(r) == SymbolsHoldingPnl(r, DOMAIN r.posDict)

(* calculate_pnl, lines 396-397 *)
TotalAndNet(r) ==
    [r EXCEPT !.totalPnl = r.holdingPnl + r.tradingPnl,
              !.netPnl = r.holdingPnl + r.tradingPnl - r.commission - r.slippage]

(* DailyResult.calculate_pnl *)
calculate_pnl(r) == TotalAndNet(calculate_trading_pnl(calculate_holding_pnl(r)))

(* python's min() of a non-empty list of numbers *)
RECURSIVE MinOf(_)
MinOf(l) == IF Len(l) = 1 THEN l[1] ELSE Min(l[1], MinOf(Tail(l)))

(* a / b <= c / d for b, d > 0, by the integer parts and then the remainders, so
   that no product exceeds 32 bits *)
RECURSIVE FractionLeq(_, _, _, _)
FractionLeq(a, b, c, d) ==
    IF a \div b # c \div d THEN a \div b < c \div d
    ELSE IF a % b = 0 THEN TRUE
    ELSE IF c % d = 0 THEN FALSE
    ELSE FractionLeq(d, c % d, b, a % b)

(* python's min() of a non-empty list of quotients with positive denominators *)
RECURSIVE MinFraction(_)
MinFraction(l) ==
    IF Len(l) = 1 THEN l[1]
    ELSE IF FractionLeq(l[1].num, l[1].den, MinFraction(Tail(l)).num, MinFraction(Tail(l)).den)
    THEN l[1] ELSE MinFraction(Tail(l))

(* calculate_result, lines 126-140: the totals before the loop *)
NewTotals ==
    [profit_days |-> 0, loss_days |-> 0, end_balance |-> PORTFOLIO_VALUE,
     highlevel |-> PORTFOLIO_VALUE, total_net_pnl |-> 0, total_commission |-> 0,
     total_slippage |-> 0, total_trade_count |-> 0,
     netPnlList |-> <<>>, balanceList |-> <<>>, highlevelList |-> <<>>,
     drawdownList |-> <<>>, ddPercentList |-> <<>>, returnList |-> <<>>]

(* the running high-water mark that never rises *)
HighLevel_Initial(highlevel, end_balance) == PORTFOLIO_VALUE

(* calculate_result, line 154 *)
HighLevel(highlevel, end_balance) == Max(highlevel, end_balance)

(* calculate_result, lines 143-164, end_balance and highlevel being the values
   assigned at lines 150 and 154 *)
Accumulate(acc, result, end_balance, highlevel) ==
    [acc EXCEPT !.profit_days = IF result.netPnl > 0 THEN @ + 1 ELSE @,
                !.loss_days = IF result.netPnl < 0 THEN @ + 1 ELSE @,
                !.netPnlList = Append(@, result.netPnl),
                !.end_balance = end_balance,
                !.balanceList = Append(@, end_balance),
                !.returnList = Append(@, [num |-> end_balance - acc.end_balance,
                                          den |-> acc.end_balance]),
                !.highlevel = highlevel,
                !.highlevelList = Append(@, highlevel),
                !.drawdownList = Append(@, end_balance - highlevel),
                !.ddPercentList = Append(@, [num |-> (end_balance - highlevel) * 100,
                                             den |-> highlevel]),
                !.total_commission = @ + result.commission,
                !.total_slippage = @ + result.slippage,
                !.total_trade_count = @ + result.tradeCount,
                !.total_net_pnl = @ + result.netPnl]

(* calculate_result, the loop of line 142 over the ledgers rs *)
RECURSIVE ResultsLoop(_, _)
ResultsLoop(acc, rs) ==
    IF rs = <<>> THEN acc
    ELSE ResultsLoop(Accumulate(acc, Head(rs), acc.end_balance + Head(rs).netPnl,
                                HighLevel(acc.highlevel, acc.end_balance + Head(rs).netPnl)),
                     Tail(rs))

(* calculate_result, lines 166-213: what is returned; the statistics numpy computes
   (dailyReturn, annualizedReturn, returnStd, sharpeRatio) are left out *)
Returned(rs, acc) ==
    [timeseries |->
        [balance |-> acc.balanceList, return |-> acc.returnList,
         highLevel |-> acc.highlevel, drawdown |-> acc.drawdownList,
         ddPercent |-> acc.ddPercentList,
         date |-> [i \in DOMAIN rs |-> rs[i].date],
         netPnl |-> acc.netPnlList],
     result |->
        [start_date |-> rs[1].date, end_date |-> Last(rs).date, total_days |-> Len(rs),
         profit_days |-> acc.profit_days, loss_days |-> acc.loss_days,
         end_balance |-> acc.end_balance,
         maxDrawdown |-> MinOf(acc.drawdownList),
         maxDdPercent |-> MinFraction(acc.ddPercentList),
         total_net_pnl |-> acc.total_net_pnl,
         dailyNetPnl |-> [num |-> acc.total_net_pnl, den |-> Len(rs)],
         total_commission |-> acc.total_commission,
         dailyCommission |-> [num |-> acc.total_commission, den |-> Len(rs)],
         total_slippage |-> acc.total_slippage,
         dailySlippage |-> [num |-> acc.total_slippage, den |-> Len(rs)],
         total_trade_count |-> acc.total_trade_count,
         dailyTradeCount |-> [num |-> acc.total_trade_count, den |-> Len(rs)],
         totalReturn |-> [num |-> (acc.end_balance - PORTFOLIO_VALUE) * 100,
                          den |-> PORTFOLIO_VALUE]]]

(* BacktestingEngine.calculate_result, from line 119 on, rs being self.results after
   the calculate_pnl of lines 116-117 *)
calculate_result(rs) == Returned(rs, ResultsLoop(NewTotals, rs))

(* The fills one timestamp can bring to the ledger of vt_symbol: none, or one fill of
   one contract; a fill against the position held closes it. *)
Fills(vt_symbol) ==
    {<<>>} \cup
    {<<[vt_symbol |-> vt_symbol, direction |-> d, price |-> p, volume |-> 1,
        offset |-> IF (d = LONG /\ poses[vt_symbol] >= 0) \/ (d = SHORT /\ poses[vt_symbol] <= 0)
                   THEN OPEN ELSE CLOSE]>> : d \in {LONG, SHORT}, p \in Prices}

(* sendOrder, line 284, for the fills of the timestamp *)
RECURSIVE UpdateTrades(_, _)
UpdateTrades(r, fills) ==
    IF fills = <<>> THEN r ELSE UpdateTrades(updateTrade(r, Head(fills)), Tail(fills))

(* send_order, lines 364-369, on the real position, for the fills of the timestamp *)
RECURSIVE FilledPoses(_, _)
FilledPoses(ps, fills) ==
    IF fills = <<>> THEN ps
    ELSE FilledPoses([ps EXCEPT ![Head(fills).vt_symbol] =
                         IF Head(fills).direction = LONG THEN @ + Head(fills).volume
                         ELSE @ - Head(fills).volume],
                     Tail(fills))

(* the new ledger that is not given the closes of the previous one *)
OpenResult_NoPreviousClose(date) == update_pos(NewDailyResult(date), poses)

(* run_backtesting, lines 97-104: the ledger of the new timestamp *)
OpenResult(date) ==
    IF results = <<>> THEN update_pos(NewDailyResult(date), poses)
    ELSE update_previous_close(update_pos(NewDailyResult(date), poses),
                               Last(results).closes)

(* run_backtesting, lines 94-108, for one timestamp of a one-symbol run: the fills
   stand for what portfolio.on_bar sends to sendOrder, close is the bar's close *)
Day(close, fills) ==
    /\ error = "none"
    /\ returned = <<>>
    /\ days < MaxLedgerDays
    /\ results' = Append(results,
                         DailyResult_update_bar(UpdateTrades(OpenResult(days + 1), fills),
                                                vt_symbols[1], close))
    /\ poses' = FilledPoses(poses, fills)
    /\ trades' = trades \o fills
    /\ days' = days + 1
    /\ UNCHANGED <<vt_symbols, signals, units, total_long, total_short, trading_signals,
                   multipliers, error, cursor, calls, bar_units, returned>>
    /\ UNCHANGED feed_vars

(* calculate_holding_pnl, line 386: self.closes[vt_symbol] finds a close for every
   symbol of posDict *)
Complete(r) == DOMAIN r.posDict \subseteq DOMAIN r.closes

(* calculate_holding_pnl, lines 384-390, on a ledger that is not Complete: posDict is
   visited in the order of vt_symbols up to the symbol whose close is missing *)
RECURSIVE HoldingUntilKeyError(_, _)
HoldingUntilKeyError(r, syms) ==
    IF syms = <<>> \/ Head(syms) \notin DOMAIN r.closes THEN r
    ELSE HoldingUntilKeyError(HoldingPnl(r, Head(syms)), Tail(syms))

(* calculate_result, lines 116-117, from the ledger i on: the loop ends at the first
   ledger whose calculate_pnl raises *)
RECURSIVE CalculatePnls(_, _)
CalculatePnls(rs, i) ==
    IF i > Len(rs) THEN rs
    ELSE IF Complete(rs[i]) THEN CalculatePnls([rs EXCEPT ![i] = calculate_pnl(rs[i])], i + 1)
    ELSE [rs EXCEPT ![i] = HoldingUntilKeyError(rs[i], vt_symbols)]

(* BacktestingEngine.calculate_result: a ledger without the close of a symbol raises
   KeyError, dates[0] raises on a run without timestamps *)
CalculateResult ==
    /\ error = "none"
    /\ Len(returned) < MaxSummaries
    /\ \E rs \in {CalculatePnls(results, 1)} :
          /\ results' = rs
          /\ IF \E i \in DOMAIN rs : ~Complete(rs[i])
             THEN error' = "KeyError" /\ returned' = returned
             ELSE IF rs = <<>>
             THEN error' = "IndexError" /\ returned' = returned
             ELSE error' = error /\ returned' = Append(returned, calculate_result(rs))
    /\ UNCHANGED <<vt_symbols, signals, units, total_long, total_short, trading_signals,
                   multipliers, poses, trades, cursor, days, calls, bar_units>>
    /\ UNCHANGED feed_vars

InitLedger == InitStrategy(<<"a">>) /\ NoFeed

NextLedger ==
    \/ \E close \in Prices : \E fills \in Fills(vt_symbols[1]) : Day(close, fills)
    \/ CalculateResult

SpecLedger == InitLedger /\ [][NextLedger]_vars

---------------------------------------------------------------------------
(* Runs of two symbols in which a timestamp need not have a bar of every symbol. *)

(* the fills a timestamp with bars of syms can bring: none, or one fill of one symbol,
   at the price 1 *)
GapFills(syms) ==
    {<<>>} \cup UNION {{f \in Fills(vt_symbol) \ {<<>>} : f[1].price = 1} :
                          vt_symbol \in Range(syms)}

(* run_backtesting, line 108, for the bars of one timestamp *)
RECURSIVE UpdateBars(_, _, _)
UpdateBars(r, syms, close) ==
    IF syms = <<>> THEN r
    ELSE UpdateBars(DailyResult_update_bar(r, Head(syms), close), Tail(syms), close)

(* run_backtesting, lines 94-108, for one timestamp with bars of syms, all closing at
   close: the fills stand for what portfolio.on_bar sends to sendOrder *)
Replay(syms, close, fills) ==
    /\ error = "none"
    /\ returned = <<>>
    /\ days < MaxGapDays
    /\ results' = Append(results,
                         UpdateBars(UpdateTrades(OpenResult(days + 1), fills), syms, close))
    /\ poses' = FilledPoses(poses, fills)
    /\ trades' = trades \o fills
    /\ days' = days + 1
    /\ UNCHANGED <<vt_symbols, signals, units, total_long, total_short, trading_signals,
                   multipliers, error, cursor, calls, bar_units, returned>>
    /\ UNCHANGED feed_vars

InitGaps == InitStrategy(<<"a", "b">>) /\ NoFeed

NextGaps ==
    \/ \E syms \in {<<"a">>, <<"b">>, <<"a", "b">>} : \E close \in Prices :
          \E fills \in GapFills(syms) : Replay(syms, close, fills)
    \/ CalculateResult

SpecGaps == InitGaps /\ [][NextGaps]_vars

---------------------------------------------------------------------------
(* The breakout run: one symbol, 25 bars; breakout keeps the highest high of bars
   1-20, the 20-bar Donchian high bar 21 is measured against. *)

InitBreakout == InitStrategy(<<"a">>) /\ NoFeed

NextBreakout ==
    /\ days < MaxBreakoutDays
    /\ \E bar \in Bars :
          /\ \E ind \in Indicators(vt_symbols[cursor], bar) : OnBar(bar, ind)
          /\ breakout' = [high |-> IF days < 20 THEN Max(breakout.high, bar.high)
                                   ELSE breakout.high,
                          bar |-> bar]
    /\ UNCHANGED <<db, data>>

SpecBreakout == InitBreakout /\ [][NextBreakout]_vars

---------------------------------------------------------------------------
(* load_data and the order of run_backtesting.  The collections hold one flat bar per
   datetime; load_data reaches them through MongoClient. *)

Dates == 1..MaxDates

FlatBar == [open |-> 1, high |-> 1, low |-> 1]

(* the index of the entry of d with datetime dt, 0 when there is none *)
Entry(d, dt) ==
    IF \E i \in DOMAIN d : d[i].dt = dt THEN CHOOSE i \in DOMAIN d : d[i].dt = dt ELSE 0

(* load_data, lines 83-84: setdefault keeps the place of an entry the dict has and
   puts a new one at the end *)
SetBar(d, dt, vt_symbol) ==
    IF Entry(d, dt) = 0 THEN Append(d, [dt |-> dt, bars |-> <<vt_symbol>>])
    ELSE [d EXCEPT ![Entry(d, dt)].bars = Append(@, vt_symbol)]

(* load_data, lines 77-84: the cursor of one collection, sorted by datetime; dts are the
   datetimes still to come *)
RECURSIVE LoadCursor(_, _, _)
LoadCursor(d, vt_symbol, dts) ==
    IF dts = {} THEN d
    ELSE LET dt == CHOOSE x \in dts : \A y \in dts : x <= y
         IN  LoadCursor(SetBar(d, dt, vt_symbol), vt_symbol, dts \ {dt})

(* load_data, line 72: the symbols syms still to load *)
RECURSIVE LoadSymbols(_, _)
LoadSymbols(d, syms) ==
    IF syms = <<>> THEN d
    ELSE LoadSymbols(LoadCursor(d, Head(syms), db[Head(syms)]), Tail(syms))

(* BacktestingEngine.load_data *)
LoadData ==
    /\ data = <<>>
    /\ results = <<>>
    /\ data' = LoadSymbols(<<>>, vt_symbols)
    /\ UNCHANGED <<strategy_vars, ledger_vars, db, breakout>>

(* run_backtesting, lines 106-108, the portfolio side: the bars of one entry *)
RECURSIVE FeedBars(_, _)
FeedBars(st, syms) ==
    IF syms = <<>> THEN st
    ELSE FeedBars(on_bar(st, Head(syms), FlatBar,
                         CHOOSE ind \in Indicators(Head(syms), FlatBar) : TRUE),
                  Tail(syms))

(* run_backtesting, lines 106-108, the ledger side *)
RECURSIVE CloseBars(_, _)
CloseBars(r, syms) ==
    IF syms = <<>> THEN r
    ELSE CloseBars(DailyResult_update_bar(r, Head(syms), FlatBar.open), Tail(syms))

(* run_backtesting, lines 94-108: the next entry of data *)
Timestamp ==
    /\ error = "none"
    /\ days < Len(data)
    /\ \E entry \in {data[days + 1]} :
          /\ results' = Append(results, CloseBars(OpenResult(entry.dt), entry.bars))
          /\ \E st \in {FeedBars([State EXCEPT !.calls = <<>>], entry.bars)} :
                /\ signals' = st.signals
                /\ units' = st.units
                /\ total_long' = st.total_long
                /\ total_short' = st.total_short
                /\ trading_signals' = st.trading_signals
                /\ multipliers' = st.multipliers
                /\ poses' = st.poses
                /\ trades' = st.trades
                /\ error' = st.error
                /\ calls' = st.calls
    /\ days' = days + 1
    /\ UNCHANGED <<vt_symbols, cursor, bar_units, returned, feed_vars>>

InitLoad ==
    /\ InitStrategy(<<"a", "b">>)
    /\ db \in [{"a", "b"} -> SUBSET Dates]
    /\ data = <<>>
    /\ breakout = [high |-> 0, bar |-> <<>>]

NextLoad ==
    \/ LoadData
    \/ Timestamp

SpecLoad == InitLoad /\ [][NextLoad]_vars

---------------------------------------------------------------------------
(* Properties of the signals and the allocator *)

Rejected(c) == c.outcome = "rejected"

Accepted(c) == c.outcome = "accepted"

CallsOfBar == {calls[i] : i \in 1..Len(calls)}

(* C1: for every instrument, at most one of its two signals has unit # 0 *)
C1_OneSignalPerInstrument ==
    \A s \in Range(vt_symbols) :
        ~(signals[<<s, 1>>].unit # 0 /\ signals[<<s, 2>>].unit # 0)

(* C2: a signal whose proposal the allocator rejected has, after the bar, the unit
   it had before the bar *)
C2_UnitChangesOnlyOnAccept ==
    \A c \in CallsOfBar :
        Rejected(c) => signals[c.signal].unit = bar_units[c.signal[2]]

(* C3: |unit| <= 4 for every signal after every on_bar *)
C3_UnitWithinFour ==
    \A id \in DOMAIN signals : Abs(signals[id].unit) <= 4

(* a bar that crossed all four entry levels of a flat signal at once, the allocator
   rejecting its proposals *)
C3_Witness ==
    \E c \in CallsOfBar :
        /\ Rejected(c)
        /\ bar_units[c.signal[2]] = 0
        /\ Abs(signals[c.signal].unit) = 4

(* C4 as stated: a rejected proposal leaves all allocator state unchanged and records
   no fill *)
C4_RejectedChangesNothing ==
    \A c \in CallsOfBar : Rejected(c) => c.after = c.before

(* C4 as amended: a rejected proposal leaves units, poses, trading_signals, total_long,
   total_short and the recorded fills unchanged; multipliers may change only in the
   entry of the proposal's instrument, and only when that instrument is flat *)
C4_RejectedChangesOnlyFlatMultiplier ==
    \A c \in CallsOfBar :
        Rejected(c) =>
            /\ [c.after EXCEPT !.multipliers = c.before.multipliers] = c.before
            /\ \A s \in DOMAIN c.after.multipliers :
                  \/ /\ s \in DOMAIN c.before.multipliers
                     /\ c.after.multipliers[s] = c.before.multipliers[s]
                  \/ s = c.signal[1] /\ c.before.units[s] = 0
            /\ DOMAIN c.before.multipliers \subseteq DOMAIN c.after.multipliers

(* a rejected proposal on a flat instrument that recomputed the multiplier *)
C4_Witness ==
    \E c \in CallsOfBar :
        /\ Rejected(c)
        /\ c.before.units[c.signal[1]] = 0
        /\ c.after.multipliers # c.before.multipliers

(* the multipliers a new_signal call left equal those it found, but for the entry of
   the call's instrument when that instrument was flat *)
FrozenIn(c) ==
    /\ DOMAIN c.before.multipliers \subseteq DOMAIN c.after.multipliers
    /\ \A s \in DOMAIN c.after.multipliers :
          \/ s = c.signal[1] /\ c.before.units[s] = 0
          \/ s \in DOMAIN c.before.multipliers
             /\ c.after.multipliers[s] = c.before.multipliers[s]

(* C5: multipliers[s] changes only inside a new_signal call made while units[s] = 0:
   from the call that makes units[s] non-zero to the call that brings it back to zero,
   no proposal of either signal, accepted or rejected, changes it *)
C5_MultiplierFrozen ==
    [][/\ calls' = <<>> => multipliers' = multipliers
       /\ calls' # <<>> =>
             /\ calls'[1].before.multipliers = multipliers
             /\ Last(calls').after.multipliers = multipliers'
             /\ \A i \in 1..(Len(calls') - 1) :
                   calls'[i + 1].before.multipliers = calls'[i].after.multipliers
             /\ \A i \in 1..Len(calls') : FrozenIn(calls'[i])]_vars

(* a proposal on an instrument in position by a signal whose volatility gives another
   multiplier than the frozen one *)
C5_Witness ==
    \E c \in CallsOfBar :
        /\ c.before.units[c.signal[1]] # 0
        /\ RoundHalfEven(PORTFOLIO_VALUE \div 100, c.atr_volatility * sizes[c.signal[1]])
              # c.before.multipliers[c.signal[1]]

(* the sum of f over the symbols of S *)
RECURSIVE SumOver(_, _)
SumOver(f, S) ==
    IF S = {} THEN 0
    ELSE LET x == CHOOSE y \in S : TRUE IN f[x] + SumOver(f, S \ {x})

(* C6: total_long is the sum of the positive entries of units and total_short the sum
   of the negative entries, in every state and after every accepted order *)
C6_TotalsAreSums ==
    /\ total_long = SumOver([s \in DOMAIN units |-> Max(units[s], 0)], DOMAIN units)
    /\ total_short = SumOver([s \in DOMAIN units |-> Min(units[s], 0)], DOMAIN units)
    /\ \A c \in CallsOfBar :
          Accepted(c) =>
             /\ c.after.total_long =
                   SumOver([s \in DOMAIN units |-> Max(c.after.units[s], 0)], DOMAIN units)
             /\ c.after.total_short =
                   SumOver([s \in DOMAIN units |-> Min(c.after.units[s], 0)], DOMAIN units)

(* an accepted order while one instrument is long and another is short *)
C6_Witness ==
    /\ \E c \in CallsOfBar : Accepted(c)
    /\ total_long >= 2
    /\ total_short <= -2
    /\ \E s \in DOMAIN units : units[s] = 0

(* C7: total_long <= 10, total_short >= -10 and |units[s]| <= 4 in every state, and an
   open proposal in a direction whose total has reached 10 is rejected *)
C7_ExposureCaps ==
    /\ total_long <= MAX_DIRECTION_POS
    /\ total_short >= -MAX_DIRECTION_POS
    /\ \A s \in DOMAIN units : Abs(units[s]) <= MAX_PRODUCT_POS
    /\ \A c \in CallsOfBar :
          /\ Abs(c.after.units[c.signal[1]]) <= MAX_PRODUCT_POS
          /\ c.after.total_long <= MAX_DIRECTION_POS
          /\ c.after.total_short >= -MAX_DIRECTION_POS
          /\ (c.offset = OPEN /\ c.direction = LONG
                /\ c.before.total_long = MAX_DIRECTION_POS) => Rejected(c)
          /\ (c.offset = OPEN /\ c.direction = SHORT
                /\ c.before.total_short = -MAX_DIRECTION_POS) => Rejected(c)

(* total_long = 10 and the instrument's trading signal, holding fewer than 4 units and
   having no closed trade, proposes one more long unit: only the portfolio-wide cap
   rejects it *)
C7_Witness ==
    \E c \in CallsOfBar :
        /\ c.offset = OPEN /\ c.direction = LONG
        /\ c.before.total_long = MAX_DIRECTION_POS
        /\ c.before.units[c.signal[1]] < MAX_PRODUCT_POS
        /\ c.signal[1] \in DOMAIN c.before.trading_signals
        /\ c.before.trading_signals[c.signal[1]] = c.signal[2]
        /\ signals[c.signal].results = <<>>
        /\ Rejected(c)

(* C8: every call of calculate_result on the same run returns what the first returned *)
C8_SecondCallSameResult ==
    \A i \in DOMAIN returned : returned[i] = returned[1]

(* the total and the cost of the adds of a round trip *)
RECURSIVE OpensUnit(_)
OpensUnit(opens) == IF opens = <<>> THEN 0 ELSE opens[1][2] + OpensUnit(Tail(opens))

RECURSIVE OpensCost(_)
OpensCost(opens) ==
    IF opens = <<>> THEN 0 ELSE opens[1][1] * opens[1][2] + OpensCost(Tail(opens))

(* pnl = U * (X - P) for a round trip of adds opens closed at X, P being cost / U *)
RoundTripLaw(r) ==
    /\ r.unit = OpensUnit(r.opens)
    /\ r.unit # 0
    /\ r.entry.num * r.unit = OpensCost(r.opens) * r.entry.den
    /\ r.pnl * r.unit = r.unit * (r.exit * r.unit - OpensCost(r.opens))

(* C9: every round trip in a signal's results obeys pnl = U * (X - P), and results
   only grows by appending: a round trip in it is never modified *)
C9_RoundTripLaw ==
    /\ [](\A id \in DOMAIN signals :
             \A i \in DOMAIN signals[id].results : RoundTripLaw(signals[id].results[i]))
    /\ [][\A id \in DOMAIN signals :
             /\ Len(signals'[id].results) >= Len(signals[id].results)
             /\ SubSeq(signals'[id].results, 1, Len(signals[id].results))
                   = signals[id].results]_vars

(* a round trip of several adds at different prices closed with a non-zero pnl,
   followed in results by a later round trip *)
C9_Witness ==
    \E id \in DOMAIN signals :
        /\ Len(signals[id].results) >= 2
        /\ \E r \in {signals[id].results[1]} :
              /\ Len(r.opens) >= 2
              /\ r.opens[1][1] # r.opens[2][1]
              /\ r.pnl # 0

(* the high-water mark after the first i balances, starting at the portfolio value *)
RECURSIVE HighWater(_, _)
HighWater(balance, i) ==
    IF i = 0 THEN PORTFOLIO_VALUE ELSE Max(HighWater(balance, i - 1), balance[i])

(* C10: every element of the drawdown series is the balance minus the running
   high-water mark and is <= 0, and maxDrawdown is the minimum of the series *)
C10_DrawdownSeries ==
    \A k \in DOMAIN returned :
        \E ts \in {returned[k].timeseries} :
           /\ Len(ts.drawdown) = Len(ts.balance)
           /\ \A i \in DOMAIN ts.drawdown :
                 /\ ts.drawdown[i] = ts.balance[i] - HighWater(ts.balance, i)
                 /\ ts.drawdown[i] <= 0
                 /\ returned[k].result.maxDrawdown <= ts.drawdown[i]
           /\ \E i \in DOMAIN ts.drawdown : returned[k].result.maxDrawdown = ts.drawdown[i]

(* a run whose balance sets a new high, falls below it and stays below *)
C10_Witness ==
    \E k \in DOMAIN returned :
        \E ts \in {returned[k].timeseries} :
           /\ Len(ts.drawdown) = 3
           /\ ts.balance[1] > PORTFOLIO_VALUE
           /\ ts.drawdown[2] < ts.drawdown[3]
           /\ ts.drawdown[3] < 0

(* the calls of the latest bar made by signal id *)
CallsOf(id) == {c \in CallsOfBar : c.signal = id}

(* C13: a signal that does not close changes its unit by at most 1 in one on_bar *)
C13_OneAddPerBar ==
    \A k \in SignalIds :
        \E id \in {<<vt_symbols[1], k>>} :
           \/ \E c \in CallsOf(id) : c.offset = CLOSE
           \/ Abs(signals[id].unit - bar_units[k]) <= 1

(* C14: in one on_bar a signal that proposes a close proposes nothing else, and a
   signal never proposes both a long open and a short open *)
C14_OneActionTypePerBar ==
    \A id \in DOMAIN signals :
        /\ \A c \in CallsOf(id) : c.offset = CLOSE => CallsOf(id) = {c}
        /\ ~(\E c, d \in CallsOf(id) :
                /\ c.offset = OPEN /\ c.direction = LONG
                /\ d.offset = OPEN /\ d.direction = SHORT)

(* a bar spanning the market on which one signal, holding fewer than 4 units, closes
   and the other fires a long add while the low also reaches its first short level *)
C14_Witness ==
    /\ \E c \in CallsOfBar :
          /\ c.offset = CLOSE
          /\ Abs(bar_units[c.signal[2]]) \in 1..3
          /\ c.bar.high = MaxPrice /\ c.bar.low = 1
    /\ \E c \in CallsOfBar :
          /\ c.offset = OPEN /\ c.direction = LONG
          /\ c.bar.low <= signals[c.signal].short_entry_1

(* C20: the price a signal proposes is max(bar.open, trigger) for a buy-direction
   order and min(bar.open, trigger) for a sell-direction order, so never more
   favourable than the open of the bar being processed *)
C20_TradePriceRealism ==
    \A c \in CallsOfBar :
        IF c.direction = LONG
        THEN c.price = Max(c.bar.open, c.trigger) /\ c.price >= c.bar.open
        ELSE c.price = Min(c.bar.open, c.trigger) /\ c.price <= c.bar.open

(* a bar that opened above the entry level it fired: the long open is proposed at the
   open, not at the level *)
C20_Witness ==
    \E c \in CallsOfBar :
        /\ c.direction = LONG /\ c.offset = OPEN
        /\ c.bar.open > c.trigger
        /\ c.price = c.bar.open

(* the signal that trades vt_symbol in the allocator view v, 0 when there is none *)
Owner(v, vt_symbol) ==
    IF vt_symbol \in DOMAIN v.trading_signals THEN v.trading_signals[vt_symbol] ELSE 0

(* what C15 asks of one new_signal call *)
Exclusive(c) ==
    /\ (Owner(c.before, c.signal[1]) \notin {0, c.signal[2]}) =>
          /\ Rejected(c)
          /\ c.after.units = c.before.units
          /\ c.after.trades = c.before.trades
          /\ Owner(c.after, c.signal[1]) = Owner(c.before, c.signal[1])
    /\ Accepted(c) =>
          /\ c.after.trades = c.before.trades + 1
          /\ c.before.units[c.signal[1]] # 0 => Owner(c.before, c.signal[1]) = c.signal[2]
          /\ c.after.units[c.signal[1]] # 0 => Owner(c.after, c.signal[1]) = c.signal[2]
    /\ ~Accepted(c) =>
          /\ c.after.trades = c.before.trades
          /\ Owner(c.after, c.signal[1]) = Owner(c.before, c.signal[1])

(* C15: a proposal from a signal other than the instrument's trading signal is
   rejected; the trading signal and the fills change only in accepted calls, and an
   accepted call on an instrument in position comes from its trading signal and leaves
   it the trading signal while the instrument stays in position: all fills between
   leaving flat and returning to flat come from one signal *)
C15_AllocatorExclusivity ==
    /\ [](\A s \in DOMAIN units : units[s] # 0 => s \in DOMAIN trading_signals)
    /\ [][/\ calls' = <<>> => trading_signals' = trading_signals /\ trades' = trades
          /\ calls' # <<>> =>
                /\ calls'[1].before.trading_signals = trading_signals
                /\ calls'[1].before.trades = Len(trades)
                /\ Last(calls').after.trading_signals = trading_signals'
                /\ Last(calls').after.trades = Len(trades')
                /\ \A i \in 1..(Len(calls') - 1) :
                      /\ calls'[i + 1].before.trading_signals
                            = calls'[i].after.trading_signals
                      /\ calls'[i + 1].before.trades = calls'[i].after.trades
                /\ \A i \in 1..Len(calls') : Exclusive(calls'[i])]_vars

(* the other signal proposes a close while the instrument's trading signal holds the
   position *)
C15_Witness ==
    \E c \in CallsOfBar :
        /\ Owner(c.before, c.signal[1]) \notin {0, c.signal[2]}
        /\ c.offset = CLOSE /\ Rejected(c)
        /\ c.before.units[c.signal[1]] # 0

(* poses = units x multipliers in the allocator view v, 0 for a symbol without
   multiplier *)
ContractsMatch(v) ==
    \A s \in DOMAIN v.units :
        v.poses[s] = IF s \in DOMAIN v.multipliers THEN v.units[s] * v.multipliers[s] ELSE 0

(* C16: poses[s] = units[s] x multipliers[s] after every accepted order (and in every
   state), so poses[s] is 0 whenever units[s] is 0 *)
C16_ContractPosition ==
    /\ ContractsMatch([units |-> units, poses |-> poses, multipliers |-> multipliers])
    /\ \A s \in DOMAIN units : units[s] = 0 => poses[s] = 0
    /\ \A c \in CallsOfBar :
          Accepted(c) =>
             /\ ContractsMatch(c.after)
             /\ c.after.units[c.signal[1]] = 0 => c.after.poses[c.signal[1]] = 0

(* an accepted close of several units, after which a proposal at another volatility
   changed the multiplier of the flat instrument *)
C16_Witness ==
    \E c \in CallsOfBar :
        /\ Accepted(c) /\ c.offset = CLOSE
        /\ Abs(c.before.units[c.signal[1]]) >= 2
        /\ c.after.poses[c.signal[1]] = 0
        /\ multipliers[c.signal[1]] # c.after.multipliers[c.signal[1]]

(* C17: a signal with profit_check that is flat before a bar and whose last closed
   round trip has a positive pnl makes no proposal on the bar and stays flat: its
   entries are suppressed before the allocator is asked *)
C17_ProfitCheckBeforeAllocator ==
    \A id \in DOMAIN signals :
        (/\ profit_check(id[2])
         /\ get_last_pnl(signals[id]) > 0
         /\ bar_units[id[2]] = 0) =>
            /\ CallsOf(id) = {}
            /\ signals[id].unit = 0

(* C18: the four long levels, the four short levels and atr_volatility of a signal
   whose unit is non-zero after a bar are those it had before the bar, and its stops
   are those it had before the bar unless the bar changed its unit *)
C18_LevelsFrozenInPosition ==
    [][\A id \in DOMAIN signals :
          signals'[id].unit # 0 =>
             /\ \A n \in 1..4 :
                   /\ long_entry(signals'[id], n) = long_entry(signals[id], n)
                   /\ short_entry(signals'[id], n) = short_entry(signals[id], n)
             /\ signals'[id].atr_volatility = signals[id].atr_volatility
             /\ signals'[id].unit = signals[id].unit =>
                   /\ signals'[id].long_stop = signals[id].long_stop
                   /\ signals'[id].short_stop = signals[id].short_stop]_vars

(* a signal in position before and after a bar that moved its entry channel away from
   the first entry level, the level it opened at *)
C18_Witness ==
    \E id \in DOMAIN signals :
        /\ bar_units[id[2]] # 0
        /\ signals[id].unit = bar_units[id[2]]
        /\ signals[id].unit > 0
        /\ signals[id].entry_up # signals[id].long_entry_1
        /\ signals[id].long_stop # 0

(* the sum over the fills l of (close - fillPrice) x volume x sign x size *)
RECURSIVE FillsPnl(_, _)
FillsPnl(close, l) ==
    IF l = <<>> THEN 0
    ELSE (close - l[1].price) * l[1].volume * (IF l[1].direction = LONG THEN 1 ELSE -1)
            * sizes[l[1].vt_symbol]
         + FillsPnl(close, Tail(l))

(* holdingPnl, tradingPnl and netPnl of the ledger r as C12 states them *)
Finalized(r) ==
    /\ r.holdingPnl =
          SumOver([s \in DOMAIN r.posDict |->
                      (r.closes[s] - (IF s \in DOMAIN r.previousCloseDict
                                      THEN r.previousCloseDict[s] ELSE 0))
                         * r.posDict[s] * sizes[s]],
                  DOMAIN r.posDict)
    /\ r.tradingPnl =
          SumOver([s \in DOMAIN r.trades |-> FillsPnl(r.closes[s], r.trades[s])],
                  DOMAIN r.trades)
    /\ r.netPnl = r.tradingPnl + r.holdingPnl - r.commission - r.slippage

(* C12: once calculate_result has finalized the ledgers of a run, every ledger has
   holdingPnl = sum of (close - previousClose) x opening position x size, tradingPnl =
   sum over its fills of (close - price) x volume x sign x size, and netPnl =
   tradingPnl + holdingPnl - commission - slippage *)
C12_LedgerFinalization ==
    Len(returned) = 1 => \A i \in DOMAIN results : Finalized(results[i])

(* a finalized ledger with an opening position, a close away from the previous close
   and a fill away from the close *)
C12_Witness ==
    /\ Len(returned) = 1
    /\ \E i \in DOMAIN results :
          \E r \in {results[i]} :
             /\ r.posDict["a"] # 0
             /\ "a" \in DOMAIN r.previousCloseDict
             /\ r.holdingPnl # 0
             /\ r.tradingPnl # 0
             /\ r.netPnl # r.holdingPnl + r.tradingPnl

(* C11: in a run of one instrument whose bar 21 has a high above the highest high of
   bars 1-20, bar 21 produces exactly one fill, a long open of one unit at
   max(bar 21's open, that high), and the 20-bar signal's unit is 1 after it *)
C11_BreakoutOpensOneUnit ==
    (days = 21 /\ breakout.bar.high > breakout.high) =>
        /\ signals[<<"a", 1>>].unit = 1
        /\ Len(trades) = 1
        /\ \E c \in CallsOf(<<"a", 1>>) :
              /\ Accepted(c)
              /\ c.direction = LONG /\ c.offset = OPEN /\ c.volume = 1
              /\ c.price = Max(breakout.bar.open, breakout.high)

(* C19: the daily ledgers, created as run_backtesting takes the timestamps, have
   strictly ascending dates *)
C19_AscendingTimestamps ==
    \A i, j \in DOMAIN results : i < j => results[i].date < results[j].date

(* the ledger r opens with a position in vt_symbol, has its close and no previous
   close of it: the day on which a previous close of 0 would show as a spike *)
SpikeDay(r, vt_symbol) ==
    /\ vt_symbol \in DOMAIN r.closes
    /\ vt_symbol \notin DOMAIN r.previousCloseDict
    /\ r.posDict[vt_symbol] # 0

(* calculate_pnl has run to its end on the ledger i *)
Computed(i) ==
    \/ Len(returned) >= 1
    \/ error = "KeyError" /\ \A j \in 1..i : Complete(results[j])

(* C21 as stated: where a ledger's holding PnL is computed for an instrument without a
   previous close, the instrument's first day, the ledger opens with a position in it,
   which the previous close of 0 values at close x position x size *)
C21_FirstDaySpike ==
    \A i \in DOMAIN results : \A vt_symbol \in DOMAIN results[i].closes :
        (Computed(i) /\ vt_symbol \notin DOMAIN results[i].previousCloseDict)
            => results[i].posDict[vt_symbol] # 0

(* C21 amended: a ledger that opens with a position in an instrument without a previous
   close comes after a ledger without this instrument's close, at which calculate_result
   raises KeyError; so no ledger whose PnL is computed has such an instrument, and the
   previous close of 0 only ever values a position of 0 *)
C21_NoSpikeIsComputed ==
    \A i \in DOMAIN results : \A vt_symbol \in Symbols :
        SpikeDay(results[i], vt_symbol) =>
            /\ i > 1
            /\ vt_symbol \notin DOMAIN results[i - 1].closes
            /\ ~Computed(i)
            /\ results[i].holdingPnl = 0

(* a spike day has been replayed and calculate_result has raised before reaching it *)
C21_Witness ==
    /\ error = "KeyError"
    /\ \E i \in DOMAIN results : SpikeDay(results[i], "a")
    /\ Computed(1)
    /\ "a" \notin DOMAIN results[1].previousCloseDict
    /\ results[1].holdingPnl = 0

(* the instruments with a trading signal are those in position, in the allocator
   view v *)
ActiveIffInPosition(v) ==
    \A s \in DOMAIN v.units : (s \in DOMAIN v.trading_signals) <=> (v.units[s] # 0)

(* C22: an instrument has an entry in trading_signals exactly when its units are not 0,
   in every state and before and after every new_signal call; every accepted close
   leaves the instrument's units at 0, and the pop of line 355 finds the entry *)
C22_ActiveSignalIffInPosition ==
    /\ ActiveIffInPosition([units |-> units, trading_signals |-> trading_signals])
    /\ error # "KeyError"
    /\ \A c \in CallsOfBar :
          /\ ActiveIffInPosition(c.before)
          /\ ActiveIffInPosition(c.after)
          /\ (Accepted(c) /\ c.offset = CLOSE) =>
                /\ c.after.units[c.signal[1]] = 0
                /\ c.signal[1] \in DOMAIN c.before.trading_signals
                /\ c.signal[1] \notin DOMAIN c.after.trading_signals

(* an accepted close by a signal that asked to close more units than the instrument
   held *)
C22_Witness ==
    \E c \in CallsOfBar :
        /\ Accepted(c) /\ c.offset = CLOSE
        /\ c.volume > Abs(c.before.units[c.signal[1]])
        /\ c.after.units[c.signal[1]] = 0

(* the sum of netPnl + commission + slippage over the ledgers rs: the net PnL of a
   run without costs *)
RECURSIVE PnlBeforeCosts(_)
PnlBeforeCosts(rs) ==
    IF rs = <<>> THEN 0
    ELSE Head(rs).netPnl + Head(rs).commission + Head(rs).slippage + PnlBeforeCosts(Tail(rs))

(* the sum over the fills l of (final close - price) x volume x side x size *)
RECURSIVE ValueAtFinalClose(_)
ValueAtFinalClose(l) ==
    IF l = <<>> THEN 0
    ELSE (Last(results).closes[Head(l).vt_symbol] - Head(l).price) * Head(l).volume
             * (IF Head(l).direction = LONG THEN 1 ELSE -1) * sizes[Head(l).vt_symbol]
         + ValueAtFinalClose(Tail(l))

(* C23: in a run with a bar of every instrument at every timestamp, once
   calculate_result has computed the ledgers, every ledger has
   netPnl = holdingPnl + tradingPnl - commission - slippage and the sum of the ledgers'
   netPnl before costs (netPnl itself when commission and slippage are zero) is the sum
   over all recorded fills of (final close - fill price) x volume x side x size *)
C23_PnlConservation ==
    Len(returned) = 1 =>
        /\ \A i \in DOMAIN results :
              results[i].netPnl = results[i].holdingPnl + results[i].tradingPnl
                                  - results[i].commission - results[i].slippage
        /\ PnlBeforeCosts(results) = ValueAtFinalClose(trades)

(* a computed run of two instruments, both filled, with a fill away from the final
   close, a position carried over a move of the close and a sale *)
C23_Witness ==
    /\ Len(returned) = 1
    /\ \A vt_symbol \in Range(vt_symbols) : \E j \in DOMAIN trades : trades[j].vt_symbol = vt_symbol
    /\ \E j \in DOMAIN trades :
          /\ trades[j].direction = SHORT
          /\ trades[j].price # Last(results).closes[trades[j].vt_symbol]
    /\ \E i \in DOMAIN results : results[i].holdingPnl # 0
    /\ \E i \in DOMAIN results : results[i].tradingPnl # 0
    /\ ValueAtFinalClose(trades) # 0

(* C24: no run ends in the division of line 300 by a volatility of 0: every new_signal
   call on a flat instrument comes from a signal whose atr_volatility is not 0 *)
C24_VolatilityNotZero ==
    /\ error # "ZeroDivisionError"
    /\ \A c \in CallsOfBar : c.before.units[c.signal[1]] = 0 => c.atr_volatility # 0

====
